---- MODULE Spec2Model ----
(***************************************************************************)
(* A model of rs-tool: reservoir sampling of line records (reservoir.rs),  *)
(* line-aligned file splits (filesplits.rs) and the record processing,     *)
(* parallel reduction and top-k display of main.rs.                        *)
(*                                                                         *)
(* A String is a sequence of one-character strings.  A random draw is a    *)
(* nondeterministic choice over the values the generator can return.  A    *)
(* frequency (an f32 quotient count / effective_size) is the pair          *)
(* <<count, effective_size>>; two frequencies are compared as the          *)
(* quotients they stand for.                                               *)
(***************************************************************************)
EXTENDS Integers, Sequences, FiniteSets, TLC

VARIABLES
    \* the reservoir specification: two reservoirs, a merge of them in progress
    \* (its position, its output pool, the count of items admitted so far and
    \* the last eviction draw as <<range end, value>>), its result, and the
    \* last histogram or top-k list computed
    r1, r2, r3, m_phase, m_i, m_pool, m_admitted, m_draw, out,
    \* the splitting specification: the source's bytes, the target chunk size,
    \* get_splits' position in its loop, the stream position and the ranges
    \* pushed so far
    content, split_size, gs_pc, src_pos, splits,
    \* the record processing specification: the arguments, process_reader's
    \* read_limit (<<>> is None), its position, its read_count, the FieldSet it
    \* builds, the record it read last and the count of records it processed
    args, read_limit, p_pc, read_count, sampled, record, n_records,
    \* the specification of main: whether an input file is given, main's
    \* position, each chunk's FieldSet (<<>> until its worker has returned), the
    \* partial results of the reduction, the FieldSet to display (<<>> until
    \* there is one) and the top-k lists displayed
    input_file, pc, results, parts, pr, shown

resVars == <<r1, r2, r3, m_phase, m_i, m_pool, m_admitted, m_draw, out>>
splitVars == <<content, split_size, gs_pc, src_pos, splits>>
procVars == <<args, read_limit, p_pc, read_count, sampled, record, n_records>>
mainVars == <<input_file, pc, results, parts, pr, shown>>
notResVars == <<splitVars, procVars, mainVars>>
notSplitVars == <<resVars, procVars, mainVars>>
notProcVars == <<resVars, splitVars, mainVars>>
vars == <<resVars, splitVars, procVars, mainVars>>

\* ------------------------------------------------------------------ bounds
\* Largest reservoir capacity tried in the reservoir specification.
MaxCap == 2
\* Most values offered to one reservoir in the reservoir specification.
MaxAdds == 2
\* Largest top-k count tried.
MaxK == 2
\* Longest source, in bytes, tried in the splitting specification.
MaxFileLen == 6
\* Largest target chunk size tried in the splitting specification.
MaxSplit == 4
\* Longest record, in bytes, tried in the record processing specification.
MaxRecLen == 2
\* Most records read in the record processing specification.
MaxRecords == 3
\* Longest input, in bytes, tried in the specification of main.
MaxInputLen == 4

\* ------------------------------------------------------------- characters
NL == "\n"
SP == " "

\* The byte of a character, for String's ordering.
Code(c) ==
    CASE c = NL -> 10
      [] c = SP -> 32
      [] c = "," -> 44
      [] c = "a" -> 97
      [] c = "b" -> 98

\* String's Ord: lexicographic on bytes.
RECURSIVE StrLess(_, _)
StrLess(s, t) ==
    IF t = <<>> THEN FALSE
    ELSE IF s = <<>> THEN TRUE
    ELSE IF Code(Head(s)) # Code(Head(t)) THEN Code(Head(s)) < Code(Head(t))
    ELSE StrLess(Tail(s), Tail(t))

Min(x, y) == IF x < y THEN x ELSE y
Max(x, y) == IF x > y THEN x ELSE y
Range(s) == {s[i] : i \in 1..Len(s)}
Occurrences(s, v) == Cardinality({i \in 1..Len(s) : s[i] = v})

\* ---------------------------------------------------------------- Reservoir
\* Reservoir::new.  The rng field is the nondeterminism of the draws.
New(capacity) ==
    [capacity |-> capacity, pool |-> <<>>, pool_full |-> FALSE, num_adds |-> 0]

\* The values rng.u32(0..self.num_adds) can return in add, num_adds being the
\* count after the increment; no draw is made while the pool is not full.
AddDraws(r) == IF r.pool_full THEN 0..r.num_adds ELSE {0}

\* Reservoir::add, j being the value drawn.
Add(r, item, j) ==
    IF ~r.pool_full
    THEN [r EXCEPT !.num_adds = @ + 1,
                   !.pool = Append(@, item),
                   !.pool_full = (Len(r.pool) + 1 = r.capacity)]
    ELSE IF j < r.capacity
         THEN [r EXCEPT !.num_adds = @ + 1, !.pool[j + 1] = item]
         ELSE [r EXCEPT !.num_adds = @ + 1]

\* The outcomes of `rng.f32() < threshold` in merge, the threshold being the
\* f32 quotient num / den: rng.f32() lies in [0, 1), 0/0 is NaN and compares
\* false, a threshold of 0 admits nothing and a threshold of 1 everything.
Admits(num, den) ==
    IF den = 0 \/ num = 0 THEN {FALSE}
    ELSE IF num = den THEN {TRUE}
    ELSE {TRUE, FALSE}

\* The values rng.u32(0..pool_capacity as u32) can return in merge.  The range
\* is empty when pool_capacity is 0, and the generator panics on it.
MergeEvictDraws(pool_capacity) == 0..(pool_capacity - 1)

\* One visit of merge's loops: the item passes the admission test or not, and
\* an admitted item is pushed, or overwrites the slot drawn.  ok is FALSE
\* when the draw panics.
MergeVisit(pool, pool_capacity, item, admit, idx) ==
    IF ~admit THEN [ok |-> TRUE, pool |-> pool]
    ELSE IF Len(pool) < pool_capacity
         THEN [ok |-> TRUE, pool |-> Append(pool, item)]
         ELSE IF idx \in MergeEvictDraws(pool_capacity)
              THEN [ok |-> TRUE, pool |-> [pool EXCEPT ![idx + 1] = item]]
              ELSE [ok |-> FALSE, pool |-> pool]

\* The draws one visit can make: none changes the outcome unless the item is
\* admitted into a full pool (an empty range is the single draw -1, the panic).
VisitDraws(pool, pool_capacity, admit) ==
    IF admit /\ Len(pool) >= pool_capacity
    THEN IF pool_capacity = 0 THEN {-1} ELSE MergeEvictDraws(pool_capacity)
    ELSE {0}

\* The reservoir merge returns, given the output pool its loops built.
MergeResultSumCaps(a, b, pool) ==
    [capacity |-> a.capacity + b.capacity,
     pool |-> pool,
     pool_full |-> (Len(pool) = a.capacity + b.capacity),
     num_adds |-> a.num_adds + b.num_adds]
MergeResult(a, b, pool) ==
    [capacity |-> Max(a.capacity, b.capacity),
     pool |-> pool,
     pool_full |-> (Len(pool) = Max(a.capacity, b.capacity)),
     num_adds |-> a.num_adds + b.num_adds]

\* Reservoir::to_histogram: a map from each distinct pooled value to its
\* frequency <<count, effective_size>>; empty when capacity is 0.
ToHistogramByCapacity(r) ==
    [v \in Range(r.pool) |-> <<Occurrences(r.pool, v), r.capacity>>]
ToHistogram(r) ==
    IF r.capacity = 0 THEN <<>>
    ELSE [v \in Range(r.pool) |->
            <<Occurrences(r.pool, v), Min(Len(r.pool), r.num_adds)>>]

\* ------------------------------------------------------------ histogram_top_k
\* freq.to_bits() of one frequency below that of another: for the positive
\* floats of a histogram the bit patterns order as the quotients do.
BitsLess(f, g) == f[1] * g[2] < g[1] * f[2]
BitsEq(f, g) == f[1] * g[2] = g[1] * f[2]

\* The sort key (freq.to_bits(), val.clone()) of one entry below another's.
KeyLess(x, y) ==
    \/ BitsLess(x.freq, y.freq)
    \/ BitsEq(x.freq, y.freq) /\ StrLess(x.val, y.val)

\* A stable ascending sort by key (sort_by_cached_key): insertion sort.
RECURSIVE InsertSorted(_, _)
InsertSorted(s, x) ==
    IF s = <<>> THEN <<x>>
    ELSE IF KeyLess(x, Head(s)) THEN <<x>> \o s
    ELSE <<Head(s)>> \o InsertSorted(Tail(s), x)

RECURSIVE SortByKey(_)
SortByKey(s) ==
    IF s = <<>> THEN <<>>
    ELSE InsertSorted(SortByKey(SubSeq(s, 1, Len(s) - 1)), s[Len(s)])

Reverse(s) == [i \in 1..Len(s) |-> s[Len(s) + 1 - i]]

\* The orders in which a HashMap over the keys ks can be iterated.
IterOrders(ks) ==
    {o \in [1..Cardinality(ks) -> ks] : \A i, j \in DOMAIN o : i # j => o[i] # o[j]}

\* histogram_top_k, order being the iteration order of the histogram.
HistogramTopK(r, k, order) ==
    LET histogram == ToHistogram(r)
        vals == [i \in 1..Len(order) |-> [freq |-> histogram[order[i]], val |-> order[i]]]
        sorted == Reverse(SortByKey(vals))
    IN  SubSeq(sorted, 1, Min(k, Len(sorted)))

\* ---------------------------------------------------------------- get_splits
\* The stream position after src.read_line(&mut buf) from position pos: past
\* the next line terminator, or the end of the source if none remains.
ReadLineEndOneByte(bytes, pos) == Min(pos + 1, Len(bytes))
ReadLineEnd(bytes, pos) ==
    IF \E i \in (pos + 1)..Len(bytes) : bytes[i] = NL
    THEN CHOOSE i \in (pos + 1)..Len(bytes) :
            /\ bytes[i] = NL
            /\ \A h \in (pos + 1)..(i - 1) : bytes[h] # NL
    ELSE Len(bytes)

\* One iteration of get_splits' loop from stream position pos: the range it
\* pushes, the stream position it leaves and whether it breaks.
SplitStepStaleEnd(bytes, pos, size) ==
    LET end_pos == Len(bytes)
        split_end_pos == Min(pos + size, end_pos)
    IN  IF split_end_pos = end_pos
        THEN [range |-> [start |-> pos, end |-> end_pos], pos |-> pos + size, break |-> TRUE]
        ELSE [range |-> [start |-> pos, end |-> split_end_pos],
              pos |-> ReadLineEnd(bytes, split_end_pos), break |-> FALSE]
SplitStep(bytes, pos, size) ==
    LET end_pos == Len(bytes)
        split_end_pos == Min(pos + size, end_pos)
    IN  IF split_end_pos = end_pos
        THEN [range |-> [start |-> pos, end |-> end_pos], pos |-> pos + size, break |-> TRUE]
        ELSE [range |-> [start |-> pos, end |-> ReadLineEnd(bytes, split_end_pos)],
              pos |-> ReadLineEnd(bytes, split_end_pos), break |-> FALSE]

\* ------------------------------------------------------------ process_reader
\* record.split(separator) for a one-character separator: the pieces between
\* its occurrences, empty ones included.
RECURSIVE Split(_, _)
Split(s, c) ==
    IF \E i \in 1..Len(s) : s[i] = c
    THEN LET i == CHOOSE i \in 1..Len(s) : s[i] = c /\ \A h \in 1..(i - 1) : s[h] # c
         IN  <<SubSeq(s, 1, i - 1)>> \o Split(SubSeq(s, i + 1, Len(s)), c)
    ELSE <<s>>

IsNonEmpty(s) == s # <<>>

\* record.split_whitespace(): the maximal runs of non-whitespace characters.
SplitWhitespace(s) == SelectSeq(Split(s, SP), IsNonEmpty)

\* The fields of a record under args.field_separator (<<>> is None).
FieldsOf(rec, field_separator) ==
    IF field_separator = <<>> THEN SplitWhitespace(rec)
    ELSE Split(rec, field_separator[1])

\* The FieldSet process_reader starts from.
NewSampledFields(a) ==
    IF Len(a.fields) = 0
    THEN [reservoirs |-> <<New(a.sample_size)>>, missing_field_counts |-> <<0>>]
    ELSE [reservoirs |-> [i \in 1..Len(a.fields) |-> New(a.sample_size)],
          missing_field_counts |-> [i \in 1..Len(a.fields) |-> 0]]

\* What one record does to one tracked field: its reservoir and counter after.
TrackFieldAlwaysAdds(r, missing, fields, field_index) ==
    IF field_index >= Len(fields)
    THEN {[reservoir |-> Add(r, <<>>, j), missing |-> missing + 1] : j \in AddDraws(r)}
    ELSE {[reservoir |-> Add(r, fields[field_index + 1], j), missing |-> missing] :
            j \in AddDraws(r)}
TrackField(r, missing, fields, field_index) ==
    IF field_index >= Len(fields)
    THEN {[reservoir |-> r, missing |-> missing + 1]}
    ELSE {[reservoir |-> Add(r, fields[field_index + 1], j), missing |-> missing] :
            j \in AddDraws(r)}

\* The FieldSets one record, within the limit, can leave: the body of
\* process_reader's loops after the limit test.
ProcessRecord(sf, a, rec) ==
    IF Len(a.fields) = 0
    THEN {[reservoirs |-> <<Add(sf.reservoirs[1], rec, j)>>,
           missing_field_counts |-> sf.missing_field_counts] :
            j \in AddDraws(sf.reservoirs[1])}
    ELSE LET fields == FieldsOf(rec, a.field_separator)
             n == Len(a.fields)
             each == [i \in 1..n |->
                        TrackField(sf.reservoirs[i], sf.missing_field_counts[i],
                                   fields, a.fields[i])]
             picks == {c \in [1..n -> UNION {each[i] : i \in 1..n}] :
                         \A i \in 1..n : c[i] \in each[i]}
         IN  {[reservoirs |-> [i \in 1..n |-> c[i].reservoir],
               missing_field_counts |-> [i \in 1..n |-> c[i].missing]] : c \in picks}

\* Whether the record read takes read_count past the limit: the loop breaks.
OverLimit(limit, count) == limit # <<>> /\ count > limit[1]

\* reader.lines(): the lines of the bytes left to read, each without its
\* terminator; a last line needs none.
Lines(bytes) ==
    IF bytes = <<>> THEN <<>>
    ELSE LET pieces == Split(bytes, NL) IN
         IF pieces[Len(pieces)] = <<>> THEN SubSeq(pieces, 1, Len(pieces) - 1) ELSE pieces

\* process_reader's loop from the FieldSets sfs it can have built, count being
\* read_count: the FieldSets it can return.
RECURSIVE ProcessLines(_, _, _, _, _)
ProcessLines(sfs, lines, count, limit, a) ==
    IF lines = <<>> THEN sfs
    ELSE IF OverLimit(limit, count + Len(Head(lines))) THEN sfs
    ELSE ProcessLines(UNION {ProcessRecord(sf, a, Head(lines)) : sf \in sfs},
                      Tail(lines), count + Len(Head(lines)), limit, a)

\* process_reader(reader, read_limit, args), the reader holding bytes.
ProcessReader(bytes, limit, a) ==
    ProcessLines({NewSampledFields(a)}, Lines(bytes), 0, limit, a)

\* ------------------------------------------------------------- the reduction
\* merge's loop over the pool items, from the output pools it can have built.
RECURSIVE MergeLoop(_, _, _, _, _)
MergeLoop(states, items, pool_capacity, num, den) ==
    IF items = <<>> THEN states
    ELSE MergeLoop(
           UNION {IF ~st.ok THEN {st}
                  ELSE UNION {{MergeVisit(st.pool, pool_capacity, Head(items), admit, idx) :
                                 idx \in VisitDraws(st.pool, pool_capacity, admit)} :
                              admit \in Admits(num, den)} : st \in states},
           Tail(items), pool_capacity, num, den)

\* Reservoir::merge(a, b): the reservoirs it can return, ok being FALSE when
\* it panics.
Merge(a, b) ==
    LET pool_capacity == Max(a.capacity, b.capacity)
        total == a.num_adds + b.num_adds
        after1 == MergeLoop({[ok |-> TRUE, pool |-> <<>>]}, a.pool, pool_capacity,
                            a.num_adds, total)
        after2 == MergeLoop(after1, b.pool, pool_capacity, b.num_adds, total)
    IN  {[ok |-> st.ok, reservoir |-> MergeResult(a, b, st.pool)] : st \in after2}

\* SampledFields::merge(pr1, pr2): the FieldSets it can return.
SampledFieldsMerge(pr1, pr2) ==
    LET n == Min(Len(pr1.reservoirs), Len(pr2.reservoirs))
        m == Min(Len(pr1.missing_field_counts), Len(pr2.missing_field_counts))
        each == [i \in 1..n |-> Merge(pr1.reservoirs[i], pr2.reservoirs[i])]
        picks == {c \in [1..n -> UNION {each[i] : i \in 1..n}] :
                    \A i \in 1..n : c[i] \in each[i]}
    IN  {[ok |-> \A i \in 1..n : c[i].ok,
          sf |-> [reservoirs |-> [i \in 1..n |-> c[i].reservoir],
                  missing_field_counts |->
                     [i \in 1..m |-> pr1.missing_field_counts[i]
                                      + pr2.missing_field_counts[i]]]] : c \in picks}

\* get_splits(src, split_size): the ranges its loop pushes from position pos on.
RECURSIVE GetSplitsFrom(_, _, _)
GetSplitsFrom(bytes, pos, size) ==
    LET it == SplitStep(bytes, pos, size) IN
    IF it.break THEN <<it.range>>
    ELSE <<it.range>> \o GetSplitsFrom(bytes, it.pos, size)
GetSplits(bytes, size) == GetSplitsFrom(bytes, 0, size)

\* ------------------------------------------------- the reservoir specification
\* The values offered to the reservoirs.
Values == {<<"a">>, <<"b">>}

NoOut == [op |-> "none", of |-> "r1", k |-> 0, hist |-> <<>>, topk |-> <<>>]

\* The variables of the other specifications, at rest.
NoSplit ==
    content = <<>> /\ split_size = 0 /\ gs_pc = "idle" /\ src_pos = 0 /\ splits = <<>>
NoMain ==
    /\ input_file = FALSE /\ pc = "idle" /\ results = <<>> /\ parts = {}
    /\ pr = <<>> /\ shown = <<>>
NoProc ==
    /\ args = [sample_size |-> 0, num_results |-> 0, fields |-> <<>>, field_separator |-> <<>>]
    /\ read_limit = <<>>
    /\ p_pc = "idle"
    /\ read_count = 0
    /\ sampled = [reservoirs |-> <<>>, missing_field_counts |-> <<>>]
    /\ record = <<>>
    /\ n_records = 0

InitRes ==
    /\ \E c1, c2 \in 0..MaxCap : r1 = New(c1) /\ r2 = New(c2)
    /\ r3 = <<>>
    /\ m_phase = "idle"
    /\ m_i = 0
    /\ m_pool = <<>>
    /\ m_admitted = 0
    /\ m_draw = <<>>
    /\ out = NoOut
    /\ NoSplit
    /\ NoProc
    /\ NoMain

\* r1.add(item)
AddR1(item) ==
    /\ m_phase = "idle"
    /\ r1.num_adds < MaxAdds
    /\ \E j \in AddDraws(r1) : r1' = Add(r1, item, j)
    /\ out' = NoOut
    /\ UNCHANGED <<r2, r3, m_phase, m_i, m_pool, m_admitted, m_draw>>
    /\ UNCHANGED notResVars

\* r2.add(item)
AddR2(item) ==
    /\ m_phase = "idle"
    /\ r2.num_adds < MaxAdds
    /\ \E j \in AddDraws(r2) : r2' = Add(r2, item, j)
    /\ out' = NoOut
    /\ UNCHANGED <<r1, r3, m_phase, m_i, m_pool, m_admitted, m_draw>>
    /\ UNCHANGED notResVars

\* Reservoir::merge(&r1, &r2) is entered: thresholds, capacity, empty pool.
MergeBegin ==
    /\ m_phase = "idle"
    /\ m_phase' = "run"
    /\ m_i' = 1
    /\ m_pool' = <<>>
    /\ m_admitted' = 0
    /\ m_draw' = <<>>
    /\ out' = NoOut
    /\ UNCHANGED <<r1, r2, r3>>
    /\ UNCHANGED notResVars

\* The item merge visits at position i: r1's pool, then r2's.
MergeItem(i) == IF i <= Len(r1.pool) THEN r1.pool[i] ELSE r2.pool[i - Len(r1.pool)]
\* The numerator of the threshold that item is admitted against.
MergeWeight(i) == IF i <= Len(r1.pool) THEN r1.num_adds ELSE r2.num_adds

\* One iteration of merge's loops.
MergeStep ==
    /\ m_phase = "run"
    /\ m_i <= Len(r1.pool) + Len(r2.pool)
    /\ LET pool_capacity == Max(r1.capacity, r2.capacity) IN
       \E admit \in Admits(MergeWeight(m_i), r1.num_adds + r2.num_adds) :
       \E idx \in VisitDraws(m_pool, pool_capacity, admit) :
          LET res == MergeVisit(m_pool, pool_capacity, MergeItem(m_i), admit, idx) IN
          /\ m_phase' = IF res.ok THEN "run" ELSE "fault"
          /\ m_pool' = res.pool
          /\ m_admitted' = IF admit THEN m_admitted + 1 ELSE m_admitted
          /\ m_draw' = IF admit /\ Len(m_pool) >= pool_capacity
                        THEN <<pool_capacity, idx>> ELSE <<>>
    /\ m_i' = m_i + 1
    /\ UNCHANGED <<r1, r2, r3, out>>
    /\ UNCHANGED notResVars

\* merge returns its reservoir.
MergeReturn ==
    /\ m_phase = "run"
    /\ m_i > Len(r1.pool) + Len(r2.pool)
    /\ r3' = <<MergeResult(r1, r2, m_pool)>>
    /\ m_phase' = "done"
    /\ UNCHANGED <<r1, r2, m_i, m_pool, m_admitted, m_draw, out>>
    /\ UNCHANGED notResVars

\* The reservoir a histogram is taken of: r1 before the merge, the merged
\* reservoir after it.
Target == IF m_phase = "done" THEN r3[1] ELSE r1
TargetName == IF m_phase = "done" THEN "r3" ELSE "r1"

\* target.to_histogram()
CallToHistogram ==
    /\ m_phase \in {"idle", "done"}
    /\ out' = [op |-> "hist", of |-> TargetName, k |-> 0,
               hist |-> ToHistogram(Target), topk |-> <<>>]
    /\ UNCHANGED <<r1, r2, r3, m_phase, m_i, m_pool, m_admitted, m_draw>>
    /\ UNCHANGED notResVars

\* histogram_top_k(&target, k)
CallTopK(k) ==
    /\ m_phase \in {"idle", "done"}
    /\ \E order \in IterOrders(DOMAIN ToHistogram(Target)) :
          out' = [op |-> "topk", of |-> TargetName, k |-> k,
                  hist |-> ToHistogram(Target),
                  topk |-> HistogramTopK(Target, k, order)]
    /\ UNCHANGED <<r1, r2, r3, m_phase, m_i, m_pool, m_admitted, m_draw>>
    /\ UNCHANGED notResVars

NextRes ==
    \/ \E item \in Values : AddR1(item)
    \/ \E item \in Values : AddR2(item)
    \/ MergeBegin
    \/ MergeStep
    \/ MergeReturn
    \/ CallToHistogram
    \/ \E k \in 0..MaxK : CallTopK(k)

SpecRes == InitRes /\ [][NextRes]_vars

NoRes ==
    /\ r1 = New(0) /\ r2 = New(0) /\ r3 = <<>>
    /\ m_phase = "idle" /\ m_i = 0 /\ m_pool = <<>> /\ m_admitted = 0 /\ m_draw = <<>>
    /\ out = NoOut

\* ------------------------------------------------- the splitting specification
\* The characters of a source and the sources tried.
SourceChars == {NL, "a"}
Sources == UNION {[1..n -> SourceChars] : n \in 0..MaxFileLen}

\* get_splits is entered: end_pos is found and the stream is back at 0.
InitSplit ==
    /\ content \in Sources
    /\ split_size \in 0..MaxSplit
    /\ gs_pc = "loop"
    /\ src_pos = 0
    /\ splits = <<>>
    /\ NoRes
    /\ NoProc
    /\ NoMain

\* One iteration of get_splits' loop.
GetSplitsIter ==
    /\ gs_pc = "loop"
    /\ LET it == SplitStep(content, src_pos, split_size) IN
          /\ splits' = Append(splits, it.range)
          /\ src_pos' = it.pos
          /\ gs_pc' = IF it.break THEN "done" ELSE "loop"
    /\ UNCHANGED <<content, split_size>>
    /\ UNCHANGED notSplitVars

NextSplit == GetSplitsIter

SpecSplit == InitSplit /\ [][NextSplit]_vars

\* ---------------------------------------- the record processing specification
\* The characters of a record and the records tried.
RecordChars == {"a", SP}
Records == UNION {[1..n -> RecordChars] : n \in 0..MaxRecLen}

\* The field indices, separators, capacities and limits tried.
FieldChoices == {<<>>, <<0>>, <<2, 0>>, <<9, 1>>}
SeparatorChoices == {<<>>, <<SP>>}
CapacityChoices == {0, 1, 2}
LimitChoices == {<<>>, <<2>>, <<4>>}

\* process_reader is entered: its reservoirs and counters are created.
InitProc ==
    /\ \E c \in CapacityChoices, f \in FieldChoices, sep \in SeparatorChoices :
          args = [sample_size |-> c, num_results |-> 0, fields |-> f, field_separator |-> sep]
    /\ read_limit \in LimitChoices
    /\ p_pc = "reading"
    /\ read_count = 0
    /\ sampled = NewSampledFields(args)
    /\ record = <<>>
    /\ n_records = 0
    /\ NoRes
    /\ NoSplit
    /\ NoMain

\* One iteration of process_reader's loop on the record rec: the loop breaks
\* when the record takes read_count past the limit, and processes it otherwise.
ReadRecord(rec) ==
    /\ p_pc = "reading"
    /\ n_records < MaxRecords
    /\ record' = rec
    /\ read_count' = read_count + Len(rec)
    /\ IF OverLimit(read_limit, read_count + Len(rec))
       THEN p_pc' = "returned" /\ UNCHANGED <<sampled, n_records>>
       ELSE /\ sampled' \in ProcessRecord(sampled, args, rec)
            /\ n_records' = n_records + 1
            /\ p_pc' = "reading"
    /\ UNCHANGED <<args, read_limit>>
    /\ UNCHANGED notProcVars

\* The reader is exhausted: process_reader returns its FieldSet.
EndOfInput ==
    /\ p_pc = "reading"
    /\ p_pc' = "returned"
    /\ UNCHANGED <<args, read_limit, read_count, sampled, record, n_records>>
    /\ UNCHANGED notProcVars

NextProc ==
    \/ \E rec \in Records : ReadRecord(rec)
    \/ EndOfInput

SpecProc == InitProc /\ [][NextProc]_vars

\* ------------------------------------------------------ the specification of main
\* The characters of an input and the inputs tried.
InputChars == {NL, "a", SP}
Inputs == UNION {[1..n -> InputChars] : n \in 0..MaxInputLen}

\* The arguments tried: -n, -k, -f with -s, and -c.
SampleSizeChoices == {0, 1, 2}
NumResultsChoices == {0, 1}
TrackingChoices == {<<<<>>, <<>>>>, <<<<1>>, <<>>>>, <<<<0>>, <<SP>>>>}
SplitSizeChoices == {1, 2, 4}

\* main has parsed its arguments.
InitMain ==
    /\ \E n \in SampleSizeChoices, k \in NumResultsChoices, t \in TrackingChoices :
          args = [sample_size |-> n, num_results |-> k, fields |-> t[1],
                  field_separator |-> t[2]]
    /\ input_file \in BOOLEAN
    /\ content \in Inputs
    /\ split_size \in (IF input_file THEN SplitSizeChoices ELSE {4})
    /\ pc = "main"
    /\ splits = <<>>
    /\ results = <<>>
    /\ parts = {}
    /\ pr = <<>>
    /\ shown = <<>>
    /\ gs_pc = "idle" /\ src_pos = 0
    /\ read_limit = <<>> /\ p_pc = "idle" /\ read_count = 0
    /\ sampled = [reservoirs |-> <<>>, missing_field_counts |-> <<>>]
    /\ record = <<>> /\ n_records = 0
    /\ NoRes

unchangedByMain == <<resVars, gs_pc, src_pos, read_limit, p_pc, read_count, sampled,
                     record, n_records, args, input_file, content, split_size>>

\* main rejects num-results > num-samples and exits.
RejectArgs ==
    /\ pc = "main"
    /\ args.num_results > args.sample_size
    /\ pc' = "exit"
    /\ UNCHANGED <<splits, results, parts, pr, shown>>
    /\ UNCHANGED unchangedByMain

\* No input file: process_reader(stdin().lock(), None, &args).
ReadStdin ==
    /\ pc = "main"
    /\ ~(args.num_results > args.sample_size)
    /\ ~input_file
    /\ \E sf \in ProcessReader(content, <<>>, args) : pr' = <<sf>>
    /\ pc' = "display"
    /\ UNCHANGED <<splits, results, parts, shown>>
    /\ UNCHANGED unchangedByMain

\* An input file: process_file gets the splits of the file.
SplitFile ==
    /\ pc = "main"
    /\ ~(args.num_results > args.sample_size)
    /\ input_file
    /\ splits' = GetSplits(content, split_size)
    /\ results' = [i \in 1..Len(splits') |-> <<>>]
    /\ pc' = "chunks"
    /\ UNCHANGED <<parts, pr, shown>>
    /\ UNCHANGED unchangedByMain

\* The worker of chunk i: the file is opened, sought to range.start and
\* processed with read_limit range.end - range.start.
ChunkWorker(i) ==
    /\ pc = "chunks"
    /\ results[i] = <<>>
    /\ LET range == splits[i] IN
       \E sf \in ProcessReader(SubSeq(content, range.start + 1, Len(content)),
                               <<range.end - range.start>>, args) :
          /\ results' = [results EXCEPT ![i] = <<sf>>]
          /\ parts' = parts \cup {[lo |-> i, hi |-> i, sf |-> sf]}
    /\ UNCHANGED <<splits, pc, pr, shown>>
    /\ UNCHANGED unchangedByMain

\* One step of reduce_with: two adjacent partial results are merged, and a
\* panic in the merge ends the program.
Reduce(p, q) ==
    /\ pc = "chunks"
    /\ p.hi + 1 = q.lo
    /\ \E m \in SampledFieldsMerge(p.sf, q.sf) :
          IF m.ok
          THEN /\ parts' = (parts \ {p, q}) \cup {[lo |-> p.lo, hi |-> q.hi, sf |-> m.sf]}
               /\ pc' = pc
          ELSE /\ parts' = parts
               /\ pc' = "fault"
    /\ UNCHANGED <<splits, results, pr, shown>>
    /\ UNCHANGED unchangedByMain

\* process_file returns the one result left of the reduction.
ProcessFileReturn ==
    /\ pc = "chunks"
    /\ \E p \in parts :
          /\ p.lo = 1 /\ p.hi = Len(splits)
          /\ pr' = <<p.sf>>
    /\ pc' = "display"
    /\ UNCHANGED <<splits, results, parts, shown>>
    /\ UNCHANGED unchangedByMain

\* display_table / display_json: the top-k list of each reservoir.
Display ==
    /\ pc = "display"
    /\ LET rs == pr[1].reservoirs
           n == Len(rs)
           orders == [i \in 1..n |-> IterOrders(DOMAIN ToHistogram(rs[i]))]
       IN  \E o \in {c \in [1..n -> UNION {orders[i] : i \in 1..n}] :
                        \A i \in 1..n : c[i] \in orders[i]} :
              shown' = [i \in 1..n |-> HistogramTopK(rs[i], args.num_results, o[i])]
    /\ pc' = "done"
    /\ UNCHANGED <<splits, results, parts, pr>>
    /\ UNCHANGED unchangedByMain

NextMain ==
    \/ RejectArgs
    \/ ReadStdin
    \/ SplitFile
    \/ \E i \in 1..Len(splits) : ChunkWorker(i)
    \/ \E p, q \in parts : Reduce(p, q)
    \/ ProcessFileReturn
    \/ Display

SpecMain == InitMain /\ [][NextMain]_vars

\* ------------------------------------------------ the reduction specification
\* The chunks tried: what process_reader can return for these inputs, sample
\* sizes and tracked fields.
ChunkInputs == {<<>>, <<"a">>, <<"a", SP, "a", NL, "a", NL>>}
ChunkTrackingChoices == {<<<<>>, <<>>>>, <<<<0, 1>>, <<>>>>}
ChunkCounts == {2, 3}
ChunkResults(t) ==
    UNION {ProcessReader(b, <<>>, [sample_size |-> n, num_results |-> 0,
                                   fields |-> t[1], field_separator |-> t[2]]) :
             b \in ChunkInputs, n \in SampleSizeChoices}

\* The per-chunk FieldSets are there, none reduced yet.
InitReduce ==
    /\ \E t \in ChunkTrackingChoices, n \in ChunkCounts :
          results \in [1..n -> {<<sf>> : sf \in ChunkResults(t)}]
    /\ parts = {[of |-> {i}, sf |-> results[i][1]] : i \in 1..Len(results)}
    /\ pc = "reduce"
    /\ pr = <<>>
    /\ input_file = TRUE /\ shown = <<>>
    /\ NoRes
    /\ NoSplit
    /\ NoProc

\* SampledFields::merge(&p, &q) on two partial results, in this order.
ReducePair(p, q) ==
    /\ pc = "reduce"
    /\ p # q
    /\ \E m \in SampledFieldsMerge(p.sf, q.sf) :
          IF m.ok
          THEN /\ parts' = (parts \ {p, q}) \cup {[of |-> p.of \cup q.of, sf |-> m.sf]}
               /\ pc' = pc
          ELSE /\ parts' = parts
               /\ pc' = "fault"
    /\ UNCHANGED <<input_file, results, pr, shown>>
    /\ UNCHANGED <<resVars, splitVars, procVars>>

\* The reduction returns the one result left.
ReduceReturn ==
    /\ pc = "reduce"
    /\ \E p \in parts :
          /\ parts = {p}
          /\ pr' = <<p.sf>>
    /\ pc' = "reduced"
    /\ UNCHANGED <<input_file, results, parts, shown>>
    /\ UNCHANGED <<resVars, splitVars, procVars>>

NextReduce ==
    \/ \E p, q \in parts : ReducePair(p, q)
    \/ ReduceReturn

SpecReduce == InitReduce /\ [][NextReduce]_vars

\* ---------------------------------------------------- claims on the reservoir
RECURSIVE SumCounts(_, _)
SumCounts(h, ks) ==
    IF ks = {} THEN 0
    ELSE LET v == CHOOSE x \in ks : TRUE IN h[v][1] + SumCounts(h, ks \ {v})

\* The reservoirs in existence.
Reservoirs == {r1, r2} \cup Range(r3)

\* C1: for a reservoir of capacity >= 1, top_k returns min(k, number of
\* distinct pooled values) entries in descending order of frequency, entries
\* of equal frequency in ascending order of value.
TopKAscendingOnTies ==
    (out.op = "topk" /\ Target.capacity >= 1) =>
        /\ Len(out.topk) = Min(out.k, Cardinality(Range(Target.pool)))
        /\ \A i, j \in 1..Len(out.topk) : i < j =>
              /\ ~BitsLess(out.topk[i].freq, out.topk[j].freq)
              /\ BitsEq(out.topk[i].freq, out.topk[j].freq)
                    => StrLess(out.topk[i].val, out.topk[j].val)

\* C2: every reservoir, built by add from new(capacity) or returned by merge,
\* has pool.length = min(num_seen, capacity).
PoolLengthInvariant ==
    \A r \in Reservoirs : Len(r.pool) = Min(r.num_adds, r.capacity)

\* C8: the histogram of a reservoir of capacity >= 1 that was offered a value
\* (a merged one: with a non-empty pool) has frequencies count / effective_size
\* with effective_size = min(pool.length, num_seen), each in (0, 1], whose
\* counts sum to effective_size: the frequencies sum to 1.
HistogramSumsToOne ==
    (/\ out.op = "hist"
     /\ Target.capacity >= 1
     /\ Target.num_adds >= 1
     /\ out.of = "r3" => Target.pool # <<>>) =>
        LET effective_size == Min(Len(Target.pool), Target.num_adds) IN
        /\ DOMAIN out.hist = Range(Target.pool)
        /\ effective_size > 0
        /\ \A v \in DOMAIN out.hist :
              /\ out.hist[v][2] = effective_size
              /\ 0 < out.hist[v][1]
              /\ out.hist[v][1] <= out.hist[v][2]
        /\ SumCounts(out.hist, DOMAIN out.hist) = effective_size

\* C8's case: the histogram of a merged reservoir that was offered more
\* values than it holds and holds two distinct ones.
HistogramOfFullMerge ==
    /\ out.op = "hist"
    /\ out.of = "r3"
    /\ Target.capacity >= 1
    /\ Target.num_adds > Len(Target.pool)
    /\ Cardinality(DOMAIN out.hist) = 2

\* C9: in a merge with capacity >= 1, an item admitted while the output pool
\* is full draws its slot from [0, admitted_count), admitted_count being the
\* count of items admitted so far in this merge, the item included.
MergeDrawsFromAdmittedCount ==
    (m_draw # <<>> /\ Max(r1.capacity, r2.capacity) >= 1) => m_draw[1] = m_admitted

\* ---------------------------------------------------------- claims on get_splits
Boundaries == {splits[i].start : i \in 1..Len(splits)} \cup {splits[i].end : i \in 1..Len(splits)}

\* C4: get_splits ends after at most length + 1 iterations, and its ranges
\* tile [0, length): the first starts at 0, each starts where the one before
\* ends, none has start > end, and the last one returned ends at length.
SplitsTile ==
    /\ \A i \in 1..Len(splits) :
          /\ splits[i].start <= splits[i].end
          /\ splits[i].start = IF i = 1 THEN 0 ELSE splits[i - 1].end
    /\ Len(splits) <= Len(content) + 1
    /\ gs_pc = "loop" => \A i \in 1..Len(splits) : splits[i].end <= Len(content)
    /\ gs_pc = "done" => splits # <<>> /\ splits[Len(splits)].end = Len(content)

\* C4's case: get_splits has returned three ranges or more.
SplitIntoSeveral == gs_pc = "done" /\ Len(splits) >= 3

\* C5, as stated: for a target chunk size >= 1, the end of every range but the
\* last falls immediately after a line terminator.
EveryInnerRangeEndsAfterTerminator ==
    (gs_pc = "done" /\ split_size >= 1) =>
        \A i \in 1..(Len(splits) - 1) :
            splits[i].end >= 1 /\ content[splits[i].end] = NL

\* C5, amended: every boundary whose offset is neither 0 nor the length of the
\* source falls immediately after a line terminator.
InnerOffsetsAfterTerminator ==
    \A b \in Boundaries : (b # 0 /\ b # Len(content)) => content[b] = NL

\* C5's case: a source without a trailing terminator split into three ranges
\* or more, the last one empty.
SplitWithoutTrailingTerminator ==
    /\ gs_pc = "done"
    /\ Len(splits) >= 3
    /\ splits[Len(splits)].start = splits[Len(splits)].end
    /\ content[Len(content)] # NL
    /\ \E b \in Boundaries : b # 0 /\ b # Len(content)

\* ------------------------------------------------------ claims on process_reader
\* The reservoir after is the reservoir before with text offered to it.
Offered(before, after, text) ==
    /\ after.num_adds = before.num_adds + 1
    /\ after.capacity = before.capacity
    /\ \/ after.pool = Append(before.pool, text)
       \/ after.pool = before.pool
       \/ \E j \in 1..Len(before.pool) : after.pool = [before.pool EXCEPT ![j] = text]

\* C7: with field indices requested, a processed record adds 1 to the missing
\* counter of each tracked field it is too short for and leaves that field's
\* reservoir alone, and offers its field's text to the reservoir of each other
\* tracked field and leaves that counter alone; so num_seen + missing_count is
\* the count of records processed, and a field index no record reaches keeps
\* an empty reservoir and histogram and counts every record.
RecordStep ==
    (p_pc = "reading" /\ n_records' = n_records + 1 /\ Len(args.fields) > 0) =>
        LET fields == FieldsOf(record', args.field_separator) IN
        \A i \in 1..Len(args.fields) :
            /\ IF Len(fields) < args.fields[i] + 1
               THEN /\ sampled'.missing_field_counts[i] = sampled.missing_field_counts[i] + 1
                    /\ sampled'.reservoirs[i] = sampled.reservoirs[i]
               ELSE /\ sampled'.missing_field_counts[i] = sampled.missing_field_counts[i]
                    /\ Offered(sampled.reservoirs[i], sampled'.reservoirs[i],
                               fields[args.fields[i] + 1])
            /\ sampled'.reservoirs[i].num_adds + sampled'.missing_field_counts[i] = n_records'
            /\ args.fields[i] > MaxRecLen =>
                  /\ sampled'.reservoirs[i].pool = <<>>
                  /\ ToHistogram(sampled'.reservoirs[i]) = <<>>
                  /\ sampled'.missing_field_counts[i] = n_records'
MissingFieldsAreCounted == [][RecordStep]_vars

\* C7's case: two tracked fields, records processed that were too short for
\* one field and long enough for the other.
SomeMissingSomePresent ==
    /\ Len(args.fields) = 2
    /\ n_records >= 2
    /\ \E i, j \in 1..2 :
          /\ i # j
          /\ sampled.missing_field_counts[i] >= 1
          /\ sampled.reservoirs[i].num_adds >= 1
          /\ sampled.reservoirs[j].num_adds >= 1

\* ------------------------------------------------------- claims on the reduction
RECURSIVE SumOver(_, _)
SumOver(f, ids) ==
    IF ids = {} THEN 0
    ELSE LET i == CHOOSE x \in ids : TRUE IN f[i] + SumOver(f, ids \ {i})

RECURSIVE MaxOver(_, _)
MaxOver(f, ids) ==
    IF ids = {} THEN 0
    ELSE LET i == CHOOSE x \in ids : TRUE IN Max(f[i], MaxOver(f, ids \ {i}))

\* The FieldSet sf is exact for the chunks ids: each field's capacity is the
\* largest of theirs, its num_seen and its missing count the sums of theirs.
ExactFor(sf, ids) ==
    LET chunk == [i \in 1..Len(results) |-> results[i][1]]
        n == Len(chunk[1].reservoirs)
    IN  /\ Len(sf.reservoirs) = n
        /\ Len(sf.missing_field_counts) = n
        /\ \A f \in 1..n :
              /\ sf.reservoirs[f].capacity =
                    MaxOver([i \in 1..Len(chunk) |-> chunk[i].reservoirs[f].capacity], ids)
              /\ sf.reservoirs[f].num_adds =
                    SumOver([i \in 1..Len(chunk) |-> chunk[i].reservoirs[f].num_adds], ids)
              /\ sf.missing_field_counts[f] =
                    SumOver([i \in 1..Len(chunk) |-> chunk[i].missing_field_counts[f]], ids)

\* C6: a merge has the larger capacity and the sum of the num_seen, and in
\* whatever order and grouping the chunk results are reduced, every partial
\* result and the final FieldSet have, per field, the largest capacity, the
\* summed num_seen and the summed missing count of the chunks they stand for.
ReductionIsExact ==
    /\ \A p \in parts : ExactFor(p.sf, p.of)
    /\ pr # <<>> => ExactFor(pr[1], 1..Len(results))

\* C6's case: three chunks of different capacities, with records and missing
\* fields, reduced to one FieldSet.
ThreeChunksReduced ==
    /\ pc = "reduced"
    /\ Len(results) = 3
    /\ results[1][1].reservoirs[1].capacity # results[2][1].reservoirs[1].capacity
    /\ \A i \in 1..3 : results[i][1].reservoirs[1].num_adds >= 1
    /\ pr[1].missing_field_counts[Len(pr[1].missing_field_counts)] >= 2

\* ------------------------------------------------------------- claims on main
\* C3: with capacity 0, or an empty source, no run reaches a panic, and the
\* histograms and top-k lists of a finished run are empty.
DegenerateRunsNeverFault ==
    (args.sample_size = 0 \/ content = <<>>) =>
        /\ pc # "fault"
        /\ pc = "done" =>
              \A i \in 1..Len(shown) :
                  shown[i] = <<>> /\ ToHistogram(pr[1].reservoirs[i]) = <<>>

\* C10: in parallel mode without field indices and with capacity >= 1, each
\* worker offers exactly the records of its range, and the num_seen of the
\* reduced result is the count of records in the source, which is the count
\* of sequential mode.
WorkersReadTheirRangeOnly ==
    (input_file /\ args.fields = <<>> /\ args.sample_size >= 1) =>
        /\ \A i \in 1..Len(results) :
              results[i] # <<>> =>
                 results[i][1].reservoirs[1].num_adds =
                    Len(Lines(SubSeq(content, splits[i].start + 1, splits[i].end)))
        /\ pr # <<>> => pr[1].reservoirs[1].num_adds = Len(Lines(content))

====
